---- MODULE Spec2Model ----
(***************************************************************************)
(* Model of scrape_baseline_tools.py (BaselineToolScraper): the run        *)
(* pipeline, the batch classifier loop, the tiered duplicate check and     *)
(* the README merge.  Text is modelled as sequences of one-character       *)
(* strings so that searching, splitting and case-folding are computed.     *)
(***************************************************************************)
EXTENDS Integers, Sequences, FiniteSets, TLC

VARIABLES
    pc,               \* position of run(): start, scrape, batch, classify, filter, gate, update, summary, done, crashed
    readme,           \* contents of README.md
    writes,           \* number of times README.md was opened for writing and written
    existing_tools,   \* run(): existing_tools, key -> [name, url, description]
    posts,            \* run(): posts returned by scrape_blog_posts
    batch_start,      \* analyze_all_posts_for_baseline_tools: loop variable i
    batches,          \* batches handed to analyze_posts_batch so far
    contents,         \* analyze_posts_batch: get_post_content results for the current batch
    posts_data,       \* analyze_posts_batch: posts_data of the current batch
    batch_tools,      \* analyze_all_posts_for_baseline_tools: result of the last analyze_posts_batch
    classify_calls,   \* per finished batch, number of chat.completions calls made for it
    all_found_tools,  \* candidates returned by the classifier, flattened
    idx,              \* run(): position of the filter loop in all_found_tools (1-based)
    dup,              \* result of the last is_tool_duplicate call and the tier that returned it
    new_tools,        \* run(): accepted tools
    log,              \* per-candidate lines printed by run(): "found" / "skip"
    summary           \* names printed under "New tools added:"

vars == <<pc, readme, writes, existing_tools, posts, batch_start, batches, contents,
          posts_data, batch_tools, classify_calls, all_found_tools, idx, dup, new_tools,
          log, summary>>

(***************************************************************************)
(* Bounds                                                                  *)
(***************************************************************************)
MaxDocLines == 3
MaxNewTools == 2
MaxFeed == 6
MaxTools == 2

(***************************************************************************)
(* Program constants                                                       *)
(***************************************************************************)
batch_size == 5
max_posts == 15
\* tool['confidence'] >= 0.7, confidence in hundredths
ConfidenceThreshold == 70

(***************************************************************************)
(* Text helpers (str slicing, re.search of a literal, str.split, lower)    *)
(***************************************************************************)
NL == "\n"

Min(S) == CHOOSE x \in S : \A y \in S : x <= y

\* s[a:b] with 0-based offsets
Slice(s, a, b) == SubSeq(s, a + 1, b)

\* offset of the first occurrence of pat in s at or after offset from, -1 when none
FindFrom(pat, s, from) ==
    LET C == {i \in from..(Len(s) - Len(pat)) : SubSeq(s, i + 1, i + Len(pat)) = pat}
    IN IF C = {} THEN -1 ELSE Min(C)

RECURSIVE Concat(_)
Concat(ss) == IF ss = <<>> THEN <<>> ELSE Head(ss) \o Concat(Tail(ss))

RECURSIVE Lines(_)
\* s.split('\n')
Lines(s) ==
    LET i == FindFrom(<<NL>>, s, 0)
    IN IF i = -1 THEN <<s>> ELSE <<Slice(s, 0, i)>> \o Lines(Slice(s, i + 1, Len(s)))

RECURSIVE IsSubseq(_, _)
\* a is a subsequence of b
IsSubseq(a, b) ==
    IF a = <<>> THEN TRUE
    ELSE IF b = <<>> THEN FALSE
    ELSE IF Head(a) = Head(b) THEN IsSubseq(Tail(a), Tail(b))
    ELSE IsSubseq(a, Tail(b))

StartsWith(s, p) == Len(s) >= Len(p) /\ SubSeq(s, 1, Len(p)) = p

SeqsUpTo(S, n) == UNION {[1..k -> S] : k \in 0..n}

Range(s) == {s[i] : i \in 1..Len(s)}

(***************************************************************************)
(* Tool records.  A tool is a parsed JSON object: has is the set of keys   *)
(* present; reading an absent key with tool[k] raises KeyError.            *)
(***************************************************************************)
Has(t, k) == k \in t.has

AllKeys == {"name", "category", "description", "url", "confidence"}

\* tool.get('url', '')
GetUrl(t) == IF Has(t, "url") THEN t.url ELSE <<>>
\* tool.get('description', '')
GetDescription(t) == IF Has(t, "description") THEN t.description ELSE <<>>

(***************************************************************************)
(* update_readme                                                           *)
(***************************************************************************)
\* f"- [{tool['name']}]({tool['url']}) - {tool['description']}"
EntryLine(t) ==
    <<"-", " ", "[">> \o t.name \o <<"]", "(">> \o t.url \o <<")", " ", "-", " ">> \o t.description

EntryKeys == {"name", "url", "description"}

RECURSIVE CategoriesOf(_, _)
\* keys of tools_by_category in insertion order
CategoriesOf(tools, seen) ==
    IF tools = <<>> THEN <<>>
    ELSE LET c == Head(tools).category
         IN IF c \in seen THEN CategoriesOf(Tail(tools), seen)
            ELSE <<c>> \o CategoriesOf(Tail(tools), seen \cup {c})

ToolsIn(tools, c) == SelectSeq(tools, LAMBDA t : t.category = c)

\* f"## {re.escape(category)}\\n"
SectionPattern(category) == <<"#", "#", " ">> \o category \o <<NL>>

NextSectionPattern == <<NL, "#", "#", " ">>

\* end_pos for a section whose heading match ends at start_pos
EndPos(content, start_pos) ==
    LET n == FindFrom(NextSectionPattern, Slice(content, start_pos, Len(content)), 0)
    IN IF n # -1 THEN start_pos + n ELSE Len(content)

RECURSIVE JoinLines(_)
\* '\n'.join(new_entries)
JoinLines(es) ==
    IF es = <<>> THEN <<>>
    ELSE IF Len(es) = 1 THEN es[1]
    ELSE es[1] \o <<NL>> \o JoinLines(Tail(es))

\* variant of InsertAt that forgets the text after the insertion point
InsertAtTruncating(content, end_pos, insert_text) ==
    Slice(content, 0, end_pos) \o insert_text

\* updated_content[:end_pos] + insert_text + updated_content[end_pos:]
InsertAt(content, end_pos, insert_text) ==
    Slice(content, 0, end_pos) \o insert_text \o Slice(content, end_pos, Len(content))

\* one iteration of "for category, tools in tools_by_category.items()"
MergeCategory(content, category, tools) ==
    LET m == FindFrom(SectionPattern(category), content, 0)
    IN IF m = -1 THEN [ok |-> TRUE, content |-> content]
       ELSE IF \E i \in 1..Len(tools) : ~(EntryKeys \subseteq tools[i].has)
            THEN [ok |-> FALSE, content |-> content]
       ELSE LET start_pos == m + Len(SectionPattern(category))
                end_pos == EndPos(content, start_pos)
                new_entries == [i \in 1..Len(tools) |-> EntryLine(tools[i])]
                insert_text == <<NL>> \o JoinLines(new_entries) \o <<NL>>
            IN [ok |-> TRUE, content |-> InsertAt(content, end_pos, insert_text)]

RECURSIVE MergeAll(_, _, _)
MergeAll(content, cats, tools) ==
    IF cats = <<>> THEN [ok |-> TRUE, content |-> content]
    ELSE LET r == MergeCategory(content, Head(cats), ToolsIn(tools, Head(cats)))
         IN IF r.ok THEN MergeAll(r.content, Tail(cats), tools) ELSE r

\* the try block of update_readme: ok = FALSE when an exception was raised before the write
Merged(content, tools) ==
    IF \E i \in 1..Len(tools) : ~Has(tools[i], "category")
    THEN [ok |-> FALSE, content |-> content]
    ELSE MergeAll(content, CategoriesOf(tools, {}), tools)

(***************************************************************************)
(* is_tool_duplicate                                                       *)
(***************************************************************************)
LowerChar(c) ==
    CASE c = "A" -> "a" [] c = "B" -> "b" [] c = "C" -> "c" [] c = "E" -> "e"
      [] c = "G" -> "g" [] c = "M" -> "m" [] c = "W" -> "w" [] OTHER -> c

\* str.lower()
Lower(s) == [i \in 1..Len(s) |-> LowerChar(s[i])]

Www == <<"w", "w", "w", ".">>

RECURSIVE ReplaceWww(_)
\* s.replace('www.', '')
ReplaceWww(s) ==
    IF s = <<>> THEN <<>>
    ELSE IF StartsWith(s, Www) THEN ReplaceWww(Slice(s, Len(Www), Len(s)))
    ELSE <<Head(s)>> \o ReplaceWww(Tail(s))

Letters == {"a", "b", "c", "e", "f", "g", "h", "p", "s", "t", "w", "x",
            "A", "B", "C", "E", "G", "M", "W"}

SchemeChars == Letters \cup {"+", "-", "."}

\* urlsplit: the text after the scheme, when a scheme is recognised
AfterScheme(url) ==
    LET i == FindFrom(<<":">>, url, 0)
    IN IF i > 0 /\ url[1] \in Letters /\ (\A j \in 1..i : url[j] \in SchemeChars)
       THEN Slice(url, i + 1, Len(url))
       ELSE url

\* urlparse(url).netloc
Netloc(url) ==
    LET rest == AfterScheme(url)
    IN IF StartsWith(rest, <<"/", "/">>)
       THEN LET D == {k \in 2..(Len(rest) - 1) : rest[k + 1] \in {"/", "?", "#"}}
                delim == IF D = {} THEN Len(rest) ELSE Min(D)
            IN Slice(rest, 2, delim)
       ELSE <<>>

\* variant of Domain that keeps "www."
DomainKeepingWww(url) == Lower(Netloc(url))

\* urlparse(u).netloc.lower().replace('www.', '')
Domain(url) == ReplaceWww(Lower(Netloc(url)))

\* the loop over existing_tools.values() of the URL tier
DomainMatch(url, existing) ==
    \E k \in DOMAIN existing :
        existing[k].url # <<>> /\ Domain(url) = Domain(existing[k].url)

\* ai: outcome of the similarity call, "YES", "NO" or "ERR" (the call raised)
IsToolDuplicate(name, url, existing, ai) ==
    IF DOMAIN existing = {} THEN [result |-> FALSE, via |-> "empty"]
    ELSE IF Lower(name) \in DOMAIN existing THEN [result |-> TRUE, via |-> "exact"]
    ELSE IF url # <<>> /\ DomainMatch(url, existing) THEN [result |-> TRUE, via |-> "domain"]
    ELSE IF ai = "ERR" THEN [result |-> Lower(name) \in DOMAIN existing, via |-> "semantic"]
    ELSE [result |-> (ai = "YES"), via |-> "semantic"]

AiAnswers == {"YES", "NO", "ERR"}

\* variant of RegisterTool that leaves the registry as it is
RegisterToolSkipped(existing, t) == existing

\* existing_tools[tool['name'].lower()] = {...}
RegisterTool(existing, t) ==
    LET key == Lower(t.name)
        entry == [name |-> t.name, url |-> GetUrl(t), description |-> GetDescription(t)]
    IN [k \in DOMAIN existing \cup {key} |-> IF k = key THEN entry ELSE existing[k]]

\* variant of ConfidenceOk with an exclusive boundary
ConfidenceOkExclusive(c) == c > ConfidenceThreshold

\* tool['confidence'] >= 0.7
ConfidenceOk(c) == c >= ConfidenceThreshold

(***************************************************************************)
(* Inputs: documents, URLs, classifier candidates, registries              *)
(***************************************************************************)
CatA == <<"A">>
CatB == <<"B">>
\* a category with no heading in any document
CatZ == <<"Z">>

HeadingA == <<"#", "#", " ", "A">>
HeadingB == <<"#", "#", " ", "B">>
EntryX == <<"-", " ", "x">>

\* whole lines a README is built from
LinePieces ==
    { HeadingA \o <<NL>>, HeadingB \o <<NL>>, EntryX \o <<NL>>, <<NL>>,
      <<"#">> \o HeadingA \o <<NL>> }

\* text after the last newline of a README
Tails == { <<>>, HeadingA, <<"-", " ", "y">> }

Docs == { Concat(ls) \o tl : ls \in SeqsUpTo(LinePieces, MaxDocLines), tl \in Tails }

\* READMEs of the full run
RunDocs ==
    { HeadingA \o <<NL>> \o EntryX \o <<NL, NL>> \o HeadingB \o <<NL>>,
      HeadingA \o <<NL>> \o HeadingB \o <<NL>> \o EntryX \o <<NL>> }

Http == <<"h", "t", "t", "p", ":", "/", "/">>
Https == <<"h", "t", "t", "p", "s", ":", "/", "/">>
HostE == <<"e", ".", "c">>
HostF == <<"f", ".", "c">>
HostG == <<"g", ".", "c">>

UrlE == Http \o HostE \o <<"/">>
UrlWwwE == Https \o Www \o HostE \o <<"/", "x">>
UrlF == Https \o HostF
UrlG == Https \o HostG

Desc == <<"d">>

Tool(n, c, u, conf) ==
    [has |-> AllKeys, name |-> n, category |-> c, url |-> u, description |-> Desc,
     confidence |-> conf]

ToolAb == Tool(<<"A", "b">>, CatA, UrlE, 70)
\* same case-folded name as ToolAb
ToolAbLower == Tool(<<"a", "b">>, CatB, UrlF, 90)
\* same domain as ToolAb
ToolCd == Tool(<<"C", "d">>, CatB, UrlWwwE, 90)
\* name with leading whitespace, no URL
ToolAbSpace == Tool(<<" ", "a", "b">>, CatA, <<>>, 90)
ToolLow == Tool(<<"E", "f">>, CatA, <<"/", "e">>, 69)
ToolGh == Tool(<<"G", "h">>, CatZ, UrlG, 100)
\* a tool object with only a name
ToolNameOnly ==
    [has |-> {"name"}, name |-> <<"M", "x">>, category |-> <<>>, url |-> <<>>,
     description |-> <<>>, confidence |-> 0]

ToolPool == {ToolAb, ToolAbLower, ToolCd, ToolAbSpace, ToolLow, ToolGh, ToolNameOnly}

\* tools passed to update_readme directly
MergePool ==
    { Tool(<<"A", "b">>, CatA, UrlE, 70), Tool(<<"C", "d">>, CatA, UrlF, 90),
      Tool(<<"G", "h">>, CatB, UrlG, 100) }

EmptyRegistry == [k \in {} |-> <<>>]

Entry(n, u) == [name |-> n, url |-> u, description |-> Desc]

\* results of get_existing_tools (the extraction is done by the language model
\* or by the regex fallback; every entry is taken to carry a name)
Registries ==
    { EmptyRegistry,
      [k \in {<<"a", "b">>} |-> Entry(<<"A", "b">>, UrlE)],
      [k \in {<<"a", "b">>, <<"i", "j">>} |->
         IF k = <<"a", "b">> THEN Entry(<<"A", "b">>, UrlE) ELSE Entry(<<"I", "j">>, <<>>)] }

NoDup == [result |-> FALSE, via |-> "none"]

(***************************************************************************)
(* run                                                                     *)
(***************************************************************************)
Init ==
    /\ pc = "start"
    /\ readme \in RunDocs
    /\ writes = 0
    /\ existing_tools = EmptyRegistry
    /\ posts = <<>>
    /\ batch_start = 0
    /\ batches = <<>>
    /\ contents = <<>>
    /\ posts_data = <<>>
    /\ batch_tools = <<>>
    /\ classify_calls = <<>>
    /\ all_found_tools = <<>>
    /\ idx = 1
    /\ dup = NoDup
    /\ new_tools = <<>>
    /\ log = <<>>
    /\ summary = <<>>

\* existing_tools = self.get_existing_tools()
GetExistingTools ==
    /\ pc = "start"
    /\ \E r \in Registries : existing_tools' = r
    /\ pc' = "scrape"
    /\ UNCHANGED <<readme, writes, posts, batch_start, batches, contents, posts_data,
                   batch_tools, classify_calls, all_found_tools, idx, dup, new_tools, log, summary>>

\* feed.entries[:max_posts]; a post is identified by its position in the feed
FeedPosts(n) == [k \in 1..(IF n < max_posts THEN n ELSE max_posts) |-> k]

\* posts = self.scrape_blog_posts(max_posts=15); if not posts: return
ScrapeBlogPosts ==
    /\ pc = "scrape"
    /\ \E n \in 0..MaxFeed :
         /\ posts' = FeedPosts(n)
         /\ pc' = IF FeedPosts(n) = <<>> THEN "done" ELSE "batch"
    /\ UNCHANGED <<readme, writes, existing_tools, batch_start, batches, contents,
                   posts_data, batch_tools, classify_calls, all_found_tools, idx, dup, new_tools,
                   log, summary>>

\* posts[i:i + batch_size]
Batch(ps, i) ==
    Slice(ps, i, IF i + batch_size < Len(ps) THEN i + batch_size ELSE Len(ps))

\* variant of PostsData that keeps the posts whose content is empty
PostsDataAll(batch, cs, i) == [k \in 1..Len(batch) |-> [id |-> k - 1, title |-> batch[k]]]

RECURSIVE PostsData(_, _, _)
\* the loop building posts_data: entries for the posts whose content is non-empty
PostsData(batch, cs, i) ==
    IF i > Len(batch) THEN <<>>
    ELSE (IF cs[i] # <<>> THEN <<[id |-> i - 1, title |-> batch[i]]>> ELSE <<>>)
         \o PostsData(batch, cs, i + 1)

\* results of get_post_content: "" on failure, text otherwise
Bodies == { <<>>, <<"t">> }

\* first half of analyze_posts_batch: fetch the contents, build posts_data,
\* return [] without a call when posts_data is empty
FetchBatch ==
    /\ pc = "batch"
    /\ batch_start < Len(posts)
    /\ LET batch == Batch(posts, batch_start)
       IN /\ batches' = Append(batches, batch)
          /\ \E cs \in [1..Len(batch) -> Bodies] :
               /\ contents' = cs
               /\ posts_data' = PostsData(batch, cs, 1)
               /\ IF PostsData(batch, cs, 1) = <<>>
                  THEN /\ batch_tools' = <<>>
                       /\ classify_calls' = Append(classify_calls, 0)
                       /\ batch_start' = batch_start + batch_size
                       /\ pc' = "batch"
                  ELSE /\ UNCHANGED <<batch_tools, classify_calls, batch_start>>
                       /\ pc' = "classify"
    /\ UNCHANGED <<readme, writes, existing_tools, posts, all_found_tools, idx, dup,
                   new_tools, log, summary>>

\* one element of analysis['posts']: flagged with no tool or one tool, or not
\* flagged (with or without a tool list)
PostAnalyses ==
    {[has_baseline_tools |-> TRUE, tools |-> ts] : ts \in {<<>>} \cup {<<t>> : t \in ToolPool}}
    \cup {[has_baseline_tools |-> FALSE, tools |-> ts] : ts \in {<<>>, <<ToolAb>>}}

\* analysis['posts'] of a response that parses
Payloads == SeqsUpTo(PostAnalyses, MaxTools)

\* responses from which no tool list is extracted: the call raised, no {...} in
\* the text, json.loads raised, or the payload made the extraction loop raise
FailedResponses == {"api_error", "no_json", "bad_json", "bad_shape"}

Responses ==
    {[kind |-> k, posts |-> <<>>] : k \in FailedResponses}
    \cup {[kind |-> "json", posts |-> p] : p \in Payloads}

RECURSIVE BatchTools(_)
\* the loop extending batch_tools
BatchTools(ps) ==
    IF ps = <<>> THEN <<>>
    ELSE (IF Head(ps).has_baseline_tools /\ Head(ps).tools # <<>>
          THEN Head(ps).tools ELSE <<>>) \o BatchTools(Tail(ps))

\* the try block of analyze_posts_batch
ExtractTools(resp) == IF resp.kind \in FailedResponses THEN <<>> ELSE BatchTools(resp.posts)

\* second half of analyze_posts_batch: the classification call and the extraction,
\* then all_tools.extend(batch_tools)
ClassifyBatch ==
    /\ pc = "classify"
    /\ \E resp \in Responses :
         /\ Len(all_found_tools) + Len(ExtractTools(resp)) <= MaxTools
         /\ batch_tools' = ExtractTools(resp)
         /\ all_found_tools' = all_found_tools \o ExtractTools(resp)
    /\ classify_calls' = Append(classify_calls, 1)
    /\ batch_start' = batch_start + batch_size
    /\ pc' = "batch"
    /\ UNCHANGED <<readme, writes, existing_tools, posts, batches, contents, posts_data,
                   idx, dup, new_tools, log, summary>>

\* where run() continues once the filter loop is over
AfterFilter(accepted) == IF accepted # <<>> THEN "update" ELSE "done"

\* analyze_all_posts_for_baseline_tools returns all_tools
FinishAnalysis ==
    /\ pc = "batch"
    /\ batch_start >= Len(posts)
    /\ contents' = <<>>
    /\ posts_data' = <<>>
    /\ batch_tools' = <<>>
    /\ pc' = IF all_found_tools = <<>> THEN AfterFilter(new_tools) ELSE "filter"
    /\ UNCHANGED <<readme, writes, existing_tools, posts, batch_start, batches,
                   classify_calls, all_found_tools, idx, dup, new_tools, log, summary>>

\* self.is_tool_duplicate(tool['name'], tool.get('url', ''), existing_tools)
CheckDuplicate ==
    /\ pc = "filter"
    /\ idx <= Len(all_found_tools)
    /\ LET tool == all_found_tools[idx]
       IN IF ~Has(tool, "name")
          THEN pc' = "crashed" /\ dup' = NoDup
          ELSE /\ pc' = "gate"
               /\ \E ai \in AiAnswers :
                    dup' = IsToolDuplicate(tool.name, GetUrl(tool), existing_tools, ai)
    /\ UNCHANGED <<readme, writes, existing_tools, posts, batch_start, batches, contents,
                   posts_data, batch_tools, classify_calls, all_found_tools, idx, new_tools, log, summary>>

LogLine(tool, verdict) == [name |-> tool.name, verdict |-> verdict]

\* "... and tool['confidence'] >= 0.7" and the two branches of the loop body
ConfidenceGate ==
    /\ pc = "gate"
    /\ LET tool == all_found_tools[idx]
           last == idx = Len(all_found_tools)
       IN IF ~dup.result /\ ~Has(tool, "confidence")
          THEN /\ pc' = "crashed"
               /\ UNCHANGED <<idx, new_tools, existing_tools, log>>
          ELSE IF ~dup.result /\ ConfidenceOk(tool.confidence)
          THEN /\ new_tools' = Append(new_tools, tool)
               /\ existing_tools' = RegisterTool(existing_tools, tool)
               /\ log' = Append(log, LogLine(tool, "found"))
               /\ idx' = idx + 1
               /\ pc' = IF last THEN AfterFilter(Append(new_tools, tool)) ELSE "filter"
          ELSE /\ log' = Append(log, LogLine(tool, "skip"))
               /\ idx' = idx + 1
               /\ pc' = IF last THEN AfterFilter(new_tools) ELSE "filter"
               /\ UNCHANGED <<new_tools, existing_tools>>
    /\ UNCHANGED <<readme, writes, posts, batch_start, batches, contents, posts_data,
                   batch_tools, classify_calls, all_found_tools, dup, summary>>

\* self.update_readme(new_tools)
UpdateReadme ==
    /\ pc = "update"
    /\ IF new_tools = <<>>
       THEN UNCHANGED <<readme, writes>>
       ELSE LET r == Merged(readme, new_tools)
            IN IF r.ok
               THEN readme' = r.content /\ writes' = writes + 1
               ELSE UNCHANGED <<readme, writes>>
    /\ pc' = "summary"
    /\ UNCHANGED <<existing_tools, posts, batch_start, batches, contents, posts_data,
                   batch_tools, classify_calls, all_found_tools, idx, dup, new_tools, log, summary>>

RECURSIVE SummaryNames(_)
\* names printed by the summary loop up to the first tool without a category
SummaryNames(tools) ==
    IF tools = <<>> \/ ~Has(Head(tools), "category") THEN <<>>
    ELSE <<Head(tools).name>> \o SummaryNames(Tail(tools))

\* print("\nNew tools added:") and the loop after it
PrintSummary ==
    /\ pc = "summary"
    /\ summary' = SummaryNames(new_tools)
    /\ pc' = IF \E i \in 1..Len(new_tools) : ~Has(new_tools[i], "category")
             THEN "crashed" ELSE "done"
    /\ UNCHANGED <<readme, writes, existing_tools, posts, batch_start, batches, contents,
                   posts_data, batch_tools, classify_calls, all_found_tools, idx, dup, new_tools, log>>

Next ==
    \/ GetExistingTools
    \/ ScrapeBlogPosts
    \/ FetchBatch
    \/ ClassifyBatch
    \/ FinishAnalysis
    \/ CheckDuplicate
    \/ ConfidenceGate
    \/ UpdateReadme
    \/ PrintSummary

Spec == Init /\ [][Next]_vars

(***************************************************************************)
(* update_readme called directly on any document and list of tools         *)
(***************************************************************************)
InitMerge ==
    /\ pc = "update"
    /\ readme \in Docs
    /\ new_tools \in SeqsUpTo(MergePool, MaxNewTools)
    /\ writes = 0
    /\ existing_tools = EmptyRegistry
    /\ posts = <<>>
    /\ batch_start = 0
    /\ batches = <<>>
    /\ contents = <<>>
    /\ posts_data = <<>>
    /\ batch_tools = <<>>
    /\ classify_calls = <<>>
    /\ all_found_tools = <<>>
    /\ idx = 1
    /\ dup = NoDup
    /\ log = <<>>
    /\ summary = <<>>

NextMerge == UpdateReadme

SpecMerge == InitMerge /\ [][NextMerge]_vars

(***************************************************************************)
(* is_tool_duplicate called directly on any candidate and registry         *)
(***************************************************************************)
DupHosts ==
    { HostE, <<"E", ".", "c">>, HostF, <<"a">> \o Www \o HostE, <<"a">> \o HostE }

DupUrls ==
    {<<>>} \cup
    { sch \o w \o h \o p :
        sch \in {<<>>, Http, Https}, w \in {<<>>, Www}, h \in DupHosts,
        p \in {<<>>, <<"/">>, <<"/", "x">>} }

DupCandidates ==
    { Tool(n, CatA, u, 90) : n \in {<<"C", "d">>, <<"A", "b">>}, u \in DupUrls }

DupRegistries ==
    {EmptyRegistry} \cup
    { [k \in {<<"a", "b">>} |-> Entry(<<"A", "b">>, u)] : u \in DupUrls }

InitDup ==
    /\ pc = "filter"
    /\ \E c \in DupCandidates : all_found_tools = <<c>>
    /\ existing_tools \in DupRegistries
    /\ idx = 1
    /\ readme = <<>>
    /\ new_tools = <<>>
    /\ writes = 0
    /\ posts = <<>>
    /\ batch_start = 0
    /\ batches = <<>>
    /\ contents = <<>>
    /\ posts_data = <<>>
    /\ batch_tools = <<>>
    /\ classify_calls = <<>>
    /\ dup = NoDup
    /\ log = <<>>
    /\ summary = <<>>

NextDup == CheckDuplicate

SpecDup == InitDup /\ [][NextDup]_vars

(***************************************************************************)
(* Vocabulary of the properties                                            *)
(***************************************************************************)
Whitespace == {" ", NL, "\t"}

RECURSIVE TrimLeft(_)
TrimLeft(s) == IF s # <<>> /\ Head(s) \in Whitespace THEN TrimLeft(Tail(s)) ELSE s

RECURSIVE TrimRight(_)
TrimRight(s) ==
    IF s # <<>> /\ s[Len(s)] \in Whitespace THEN TrimRight(SubSeq(s, 1, Len(s) - 1)) ELSE s

\* surrounding whitespace removed
Trim(s) == TrimRight(TrimLeft(s))

\* the host of a URL with a leading "www." removed
BareDomain(url) ==
    LET h == Netloc(url)
    IN IF StartsWith(h, Www) THEN Slice(h, Len(Www), Len(h)) ELSE h

SameBareDomain(u1, u2) == u1 # <<>> /\ u2 # <<>> /\ BareDomain(u1) = BareDomain(u2)

IsTopHeading(line) == StartsWith(line, <<"#", "#", " ">>)

HeadingLine(category) == <<"#", "#", " ">> \o category

\* the top-level heading line that governs line i of ls, <<>> when there is none
GoverningHeading(ls, i) ==
    LET H == {j \in 1..(i - 1) : IsTopHeading(ls[j])}
    IN IF H = {} THEN <<>> ELSE ls[CHOOSE j \in H : \A k \in H : k <= j]

\* index of the first top-level heading after line i of ls, Len(ls) + 1 when none
NextHeading(ls, i) ==
    LET H == {j \in (i + 1)..Len(ls) : IsTopHeading(ls[j])}
    IN IF H = {} THEN Len(ls) + 1 ELSE Min(H)

\* the document has the heading of the category as a complete (terminated) line
HasHeadingLine(ls, category) ==
    \E i \in 1..(Len(ls) - 1) : ls[i] = HeadingLine(category)

IsEntry(line) == StartsWith(line, <<"-", " ">>)

CurrentTool == all_found_tools[idx]

(***************************************************************************)
(* C1 -- update_readme called with a non-empty list of tools keeps every   *)
(* line of the document, in the same relative order: the lines before the  *)
(* call are a subsequence of the lines after it.                           *)
(***************************************************************************)
C1_NoRegression ==
    [][(pc = "update" /\ new_tools # <<>>) => IsSubseq(Lines(readme), Lines(readme'))]_vars

\* update_readme has written a document in which a new entry is followed by
\* the heading of section B
C1_Witness ==
    /\ pc = "summary"
    /\ writes = 1
    /\ new_tools # <<>>
    /\ LET ls == Lines(readme)
       IN \E i \in 1..Len(ls) : \E j \in 1..Len(ls) :
            i < j /\ ls[i] = EntryLine(new_tools[1]) /\ ls[j] = HeadingB

(***************************************************************************)
(* C2 -- once a tool is accepted, a later candidate of the same run with   *)
(* the same case-folded name, or a URL with the same bare domain, is       *)
(* reported duplicate, and no two accepted tools share a case-folded name  *)
(* or a bare domain.                                                       *)
(***************************************************************************)
C2_FirstWins ==
    /\ \A i \in 1..Len(new_tools) : \A j \in 1..Len(new_tools) :
         i < j =>
           /\ Lower(new_tools[i].name) # Lower(new_tools[j].name)
           /\ ~SameBareDomain(GetUrl(new_tools[i]), GetUrl(new_tools[j]))
    /\ pc = "gate" =>
         \A i \in 1..Len(new_tools) :
           (\/ Lower(new_tools[i].name) = Lower(CurrentTool.name)
            \/ SameBareDomain(GetUrl(new_tools[i]), GetUrl(CurrentTool)))
           => dup.result

\* a candidate that differs from an accepted tool only by case is reported
\* duplicate although the registry was empty at the start of the run
C2_Witness ==
    /\ pc = "gate"
    /\ new_tools = <<ToolAb>>
    /\ CurrentTool = ToolAbLower
    /\ DOMAIN existing_tools = {Lower(ToolAb.name)}
    /\ dup.result

(***************************************************************************)
(* C3 -- a run in which no candidate is accepted (or the feed has no       *)
(* posts) terminates normally and has written README.md zero times.        *)
(***************************************************************************)
C3_NoAcceptNoWrite ==
    (pc \in {"done", "crashed"} /\ new_tools = <<>>) => (pc = "done" /\ writes = 0)

(***************************************************************************)
(* C4 -- a candidate whose name, case-folded and trimmed of surrounding    *)
(* whitespace, is a key of the registry is reported duplicate by           *)
(* is_tool_duplicate and is not accepted.                                  *)
(***************************************************************************)
C4_ExactNameRejected ==
    pc = "gate" =>
      (Trim(Lower(CurrentTool.name)) \in DOMAIN existing_tools => dup.result)

(***************************************************************************)
(* C5 -- when the candidate URL and the URL of some registry entry have    *)
(* the same bare domain, is_tool_duplicate returns true and the semantic   *)
(* tier is not consulted.                                                  *)
(***************************************************************************)
C5_DomainDup ==
    pc = "gate" =>
      \A k \in DOMAIN existing_tools :
        SameBareDomain(GetUrl(CurrentTool), existing_tools[k].url)
        => (dup.result /\ dup.via \in {"exact", "domain"})

\* https://www.e.c/x against a registered http://e.c/ under another name
C5_Witness ==
    /\ pc = "gate"
    /\ GetUrl(CurrentTool) = UrlWwwE
    /\ Lower(CurrentTool.name) \notin DOMAIN existing_tools
    /\ \E k \in DOMAIN existing_tools : existing_tools[k].url = UrlE
    /\ dup = [result |-> TRUE, via |-> "domain"]

(***************************************************************************)
(* C6 -- the step of run() that follows the duplicate check accepts the    *)
(* candidate exactly when it was reported not duplicate and its confidence *)
(* is at least 0.70; an accepted candidate is appended to new_tools and    *)
(* registered, a rejected one changes neither new_tools nor the registry.  *)
(***************************************************************************)
C6_ConfidenceGate ==
    [][pc = "gate" =>
         LET accept == /\ ~dup.result
                       /\ Has(CurrentTool, "confidence")
                       /\ CurrentTool.confidence >= 70
         IN IF accept
            THEN /\ new_tools' = Append(new_tools, CurrentTool)
                 /\ Lower(CurrentTool.name) \in DOMAIN existing_tools'
                 /\ log' = Append(log, [name |-> CurrentTool.name, verdict |-> "found"])
            ELSE /\ new_tools' = new_tools
                 /\ existing_tools' = existing_tools
                 /\ (pc' # "crashed" =>
                       log' = Append(log, [name |-> CurrentTool.name, verdict |-> "skip"]))
      ]_vars

\* with an empty registry, the candidate of confidence 0.69 was skipped and the
\* candidate of confidence exactly 0.70 was accepted
C6_Witness ==
    /\ all_found_tools = <<ToolLow, ToolAb>>
    /\ log = <<[name |-> ToolLow.name, verdict |-> "skip"],
               [name |-> ToolAb.name, verdict |-> "found"]>>
    /\ new_tools = <<ToolAb>>
    /\ DOMAIN existing_tools = {Lower(ToolAb.name)}

(***************************************************************************)
(* C7 -- the posts are split in feed order into consecutive batches of at  *)
(* most 5, each post in exactly one batch; a batch gets at most one        *)
(* classification call, made with exactly the posts of the batch whose     *)
(* content is non-empty; a batch whose contents are all empty gets no call *)
(* and yields no candidate, and the run goes on.                           *)
(***************************************************************************)
C7_Batching ==
    /\ \A k \in 1..Len(batches) :
         /\ Len(batches[k]) <= 5
         /\ batches[k] = SubSeq(posts, 5 * (k - 1) + 1,
                                IF 5 * k < Len(posts) THEN 5 * k ELSE Len(posts))
    /\ (pc \in {"filter", "gate", "update", "summary"} \/ (pc = "done" /\ posts # <<>>)) =>
         \A p \in 1..Len(posts) :
           Cardinality({k \in 1..Len(batches) : posts[p] \in Range(batches[k])}) = 1
    /\ Len(classify_calls) <= Len(batches)
    /\ \A k \in 1..Len(classify_calls) : classify_calls[k] \in {0, 1}
    /\ pc = "classify" =>
         /\ Len(classify_calls) = Len(batches) - 1
         /\ posts_data # <<>>
         /\ LET b == batches[Len(batches)]
            IN [i \in 1..Len(posts_data) |-> posts_data[i].title]
                 = SelectSeq(b, LAMBDA p :
                     \E i \in 1..Len(b) : b[i] = p /\ contents[i] # <<>>)
    /\ (pc = "batch" /\ batches # <<>>) =>
         /\ Len(classify_calls) = Len(batches)
         /\ (\A i \in 1..Len(contents) : contents[i] = <<>>) =>
              (classify_calls[Len(classify_calls)] = 0 /\ batch_tools = <<>>)
         /\ (\E i \in 1..Len(contents) : contents[i] # <<>>) =>
              classify_calls[Len(classify_calls)] = 1

\* a batch of 5 posts of which 2 have no content: the call is about to be made
\* with the 3 others
C7_Witness ==
    /\ pc = "classify"
    /\ Len(batches[Len(batches)]) = 5
    /\ Cardinality({i \in 1..5 : contents[i] = <<>>}) = 2
    /\ Len(posts_data) = 3

(***************************************************************************)
(* C8 -- for every accepted tool whose category heading line exists in the *)
(* document, update_readme puts the entry line in that category's own      *)
(* section, after the existing entries of the section, and keeps the       *)
(* headings in their order.                                                *)
(***************************************************************************)
C8_OwnSection ==
    [][(pc = "update" /\ new_tools # <<>>) =>
         LET old == Lines(readme)
             new == Lines(readme')
             added == {EntryLine(new_tools[k]) : k \in 1..Len(new_tools)}
         IN /\ SelectSeq(new, IsTopHeading) = SelectSeq(old, IsTopHeading)
            /\ \A k \in 1..Len(new_tools) :
                 HasHeadingLine(old, new_tools[k].category) =>
                   \E i \in 1..Len(new) :
                     /\ new[i] = EntryLine(new_tools[k])
                     /\ GoverningHeading(new, i) = HeadingLine(new_tools[k].category)
                     /\ \A j \in (i + 1)..(NextHeading(new, i) - 1) :
                          IsEntry(new[j]) => new[j] \in added
      ]_vars

(***************************************************************************)
(* C9 -- at the end of a run the tools named in the summary are exactly    *)
(* the accepted tools whose entry line is in README.md.                    *)
(***************************************************************************)
C9_SummaryMatchesDocument ==
    pc = "done" =>
      \A i \in 1..Len(new_tools) :
        (new_tools[i].name \in Range(summary))
        <=> (EntryLine(new_tools[i]) \in Range(Lines(readme)))

(***************************************************************************)
(* C10 -- a classification response that does not conform to the expected  *)
(* schema contributes no candidate and never makes the run raise.          *)
(***************************************************************************)
C10_MalformedNeverFatal == pc # "crashed"

\* the host of a URL, case-folded, with only a leading "www." removed
FoldedHost(url) ==
    LET h == Lower(Netloc(url))
    IN IF StartsWith(h, Www) THEN Slice(h, Len(Www), Len(h)) ELSE h

(***************************************************************************)
(* C11 -- the URL tier of is_tool_duplicate reports a duplicate only when  *)
(* the candidate URL and the URL of some registry entry both have a        *)
(* non-empty host and the two hosts are equal after case-folding and       *)
(* removing only a leading "www.".                                         *)
(***************************************************************************)
C11_DomainTierSound ==
    (pc = "gate" /\ dup.via = "domain") =>
      \E k \in DOMAIN existing_tools :
        /\ existing_tools[k].url # <<>>
        /\ Netloc(GetUrl(CurrentTool)) # <<>>
        /\ Netloc(existing_tools[k].url) # <<>>
        /\ FoldedHost(GetUrl(CurrentTool)) = FoldedHost(existing_tools[k].url)

====
